---- MODULE Spec2Model ----
(***************************************************************************)
(* Smart Research Assistant: the LangGraph workflow                        *)
(*   search_agent -> analyze_agent -> validator_agent -> summarize_agent   *)
(*   -> formatter_agent -> END                                             *)
(* and the pure functions its stages compute.                              *)
(*                                                                         *)
(* A Python str is modelled as the sequence of its characters (one-char    *)
(* strings), so that strip / lower / split / re.findall / title are        *)
(* computed character by character, as the interpreter computes them.     *)
(* A Python dict is a function whose DOMAIN is its key set; d.get(k, dflt) *)
(* is Get(d, k, dflt).                                                     *)
(***************************************************************************)
EXTENDS Integers, Sequences, FiniteSets, TLC

VARIABLES pc, state, trace, tiers, renders, llm, sections, story

vars == <<pc, state, trace, tiers, renders, llm, sections, story>>

(***************************************************************************)
(* Characters and the str methods the stages use.                          *)
(***************************************************************************)
LowerLetters ==
    {"a","b","c","d","e","f","g","h","i","j","k","l","m",
     "n","o","p","q","r","s","t","u","v","w","x","y","z"}

ToLowerMap ==
    [A |-> "a", B |-> "b", C |-> "c", D |-> "d", E |-> "e", F |-> "f",
     G |-> "g", H |-> "h", I |-> "i", J |-> "j", K |-> "k", L |-> "l",
     M |-> "m", N |-> "n", O |-> "o", P |-> "p", Q |-> "q", R |-> "r",
     S |-> "s", T |-> "t", U |-> "u", V |-> "v", W |-> "w", X |-> "x",
     Y |-> "y", Z |-> "z"]

ToUpperMap ==
    [a |-> "A", b |-> "B", c |-> "C", d |-> "D", e |-> "E", f |-> "F",
     g |-> "G", h |-> "H", i |-> "I", j |-> "J", k |-> "K", l |-> "L",
     m |-> "M", n |-> "N", o |-> "O", p |-> "P", q |-> "Q", r |-> "R",
     s |-> "S", t |-> "T", u |-> "U", v |-> "V", w |-> "W", x |-> "X",
     y |-> "Y", z |-> "Z"]

UpperLetters == DOMAIN ToLowerMap

Digits == {"0","1","2","3","4","5","6","7","8","9"}

\* [a-zA-Z]
IsAlpha(c) == c \in LowerLetters \/ c \in UpperLetters

\* \w of the re module: letters, digits and the underscore
IsWordChar(c) == IsAlpha(c) \/ c \in Digits \/ c = "_"

\* str.isspace for the characters of the model
IsSpace(c) == c \in {" ", "\n", "\t"}

LowerChar(c) == IF c \in UpperLetters THEN ToLowerMap[c] ELSE c

UpperChar(c) == IF c \in LowerLetters THEN ToUpperMap[c] ELSE c

\* a str, and a list of str
Str == Seq(STRING)

StrList == Seq(Str)

\* str.lower()
Lower[s \in Str] == [i \in 1..Len(s) |-> LowerChar(s[i])]

\* str.title(): a letter is upper-cased after a non-letter, lower-cased after a letter
Title[s \in Str] ==
    [i \in 1..Len(s) |->
        IF i = 1 \/ ~IsAlpha(s[i-1]) THEN UpperChar(s[i]) ELSE LowerChar(s[i])]

\* str.strip(): from the first to the last character that is no whitespace
Strip[s \in Str] ==
    IF \A i \in 1..Len(s) : IsSpace(s[i]) THEN <<>>
    ELSE SubSeq(s,
                CHOOSE i \in 1..Len(s) : ~IsSpace(s[i]) /\ \A k \in 1..(i-1) : IsSpace(s[k]),
                CHOOSE i \in 1..Len(s) : ~IsSpace(s[i]) /\ \A k \in (i+1)..Len(s) : IsSpace(s[k]))

\* str.rstrip()
RStrip[s \in Str] ==
    IF \A i \in 1..Len(s) : IsSpace(s[i]) THEN <<>>
    ELSE SubSeq(s, 1,
                CHOOSE i \in 1..Len(s) : ~IsSpace(s[i]) /\ \A k \in (i+1)..Len(s) : IsSpace(s[k]))

\* index of the last character of the run of letters that starts at i
AlphaRunEnd[s \in Str, i \in Nat] ==
    IF i < Len(s) /\ IsAlpha(s[i+1]) THEN AlphaRunEnd[s, i+1] ELSE i

\* index of the last character of the run of non-whitespace that starts at i
TokenEnd[s \in Str, i \in Nat] ==
    IF i < Len(s) /\ ~IsSpace(s[i+1]) THEN TokenEnd[s, i+1] ELSE i

\* str.split(): the maximal runs of non-whitespace characters, in order
SplitFrom[s \in Str, i \in Nat, acc \in StrList] ==
    IF i > Len(s) THEN acc
    ELSE IF IsSpace(s[i]) THEN SplitFrom[s, i+1, acc]
    ELSE SplitFrom[s, TokenEnd[s, i] + 1, Append(acc, SubSeq(s, i, TokenEnd[s, i]))]

Split(s) == SplitFrom[s, 1, <<>>]

\* the indexes of s that hold sep, in order
SepPositions[s \in Str, sep \in STRING] ==
    SelectSeq([i \in 1..Len(s) |-> IF s[i] = sep THEN i ELSE 0], LAMBDA p : p # 0)

\* the fields of s between the separators at seps: empty fields are kept
FieldsBetween[s \in Str, seps \in Seq(Nat)] ==
    [k \in 1..(Len(seps) + 1) |->
        SubSeq(s, IF k = 1 THEN 1 ELSE seps[k-1] + 1,
                  IF k > Len(seps) THEN Len(s) ELSE seps[k] - 1)]

\* str.split(sep) for a one-character separator
SplitOn(s, sep) == FieldsBetween[s, SepPositions[s, sep]]

\* sep.join(parts)
Join[sep \in Str, parts \in StrList] ==
    IF Len(parts) = 0 THEN <<>>
    ELSE IF Len(parts) = 1 THEN parts[1]
    ELSE parts[1] \o sep \o Join[sep, Tail(parts)]

\* s[:n], of a str or of a list (t is s, evaluated once)
Prefix(s, n) ==
    CHOOSE r \in {SubSeq(t, 1, IF Len(t) < n THEN Len(t) ELSE n) : t \in {s}} : TRUE

\* re.findall(r"\b[a-zA-Z]{minLen,}\b", s): the runs of letters of length >= minLen
\* that have no word character (letter, digit, underscore) on either side
FindAllFrom[s \in Str, minLen \in Nat, i \in Nat, acc \in StrList] ==
    IF i > Len(s) THEN acc
    ELSE IF IsAlpha(s[i]) /\ (i = 1 \/ ~IsWordChar(s[i-1]))
    THEN LET j == AlphaRunEnd[s, i]
         IN  IF j - i + 1 >= minLen /\ (j = Len(s) \/ ~IsWordChar(s[j+1]))
             THEN FindAllFrom[s, minLen, j+1, Append(acc, SubSeq(s, i, j))]
             ELSE FindAllFrom[s, minLen, j+1, acc]
    ELSE FindAllFrom[s, minLen, i+1, acc]

FindAll(minLen, s) == FindAllFrom[s, minLen, 1, <<>>]

Range(q) == {q[i] : i \in 1..Len(q)}

\* dict.get(key, default)
Get(d, key, default) == IF key \in DOMAIN d THEN d[key] ELSE default

\* collections.Counter(words).most_common(n): the distinct words by descending
\* count, words of equal count in first-seen order, cut to n
Count(words, w) == Cardinality({i \in 1..Len(words) : words[i] = w})

Distinct[words \in StrList, acc \in StrList] ==
    IF words = <<>> THEN acc
    ELSE Distinct[Tail(words),
                  IF Head(words) \in Range(acc) THEN acc ELSE Append(acc, Head(words))]

Counted == [word : Str, count : Nat]

\* the distinct words in first-seen order, each with its count
Counts[words \in StrList, distinct \in StrList] ==
    [i \in 1..Len(distinct) |-> [word |-> distinct[i], count |-> Count(words, distinct[i])]]

\* the first of the entries with the highest count
Best[left \in Seq(Counted)] ==
    CHOOSE i \in 1..Len(left) :
        /\ \A j \in 1..Len(left) : left[j].count <= left[i].count
        /\ \A j \in 1..(i-1) : left[j].count < left[i].count

SortByCount[left \in Seq(Counted), acc \in Seq(Counted)] ==
    IF left = <<>> THEN acc
    ELSE SortByCount[SubSeq(left, 1, Best[left] - 1) \o SubSeq(left, Best[left] + 1, Len(left)),
                     Append(acc, left[Best[left]])]

MostCommon[words \in StrList, n \in Nat] ==
    Prefix(SortByCount[Counts[words, Distinct[words, <<>>]], <<>>], n)

(***************************************************************************)
(* Inputs of a run: the topic typed by the user and what the collaborators *)
(* (Tavily, Gemini, reportlab) may answer.                                 *)
(***************************************************************************)
\* search_agent.py:75  _tavily_search(query, max_results=5)
max_results == 5

\* size of the pool str(uuid.uuid4())[:8] draws document ids from
NumUuids == 5

Uuid(n) == "uuid" \o ToString(n)

\* the ids one search draws, one per result: draw m goes round the first m ids
\* of the pool, so a draw may repeat an id (m less than the number of results)
\* or not
UuidDraws ==
    {[i \in 1..max_results |-> Uuid(((i - 1) % m) + 1)] : m \in 1..NumUuids}

\* "", "  ", "Model Drift", "model-drift", " Drift, Data ", "content"
Topics ==
    {<<>>,
     <<" "," ">>,
     <<"M","o","d","e","l"," ","D","r","i","f","t">>,
     <<"m","o","d","e","l","-","d","r","i","f","t">>,
     <<" ","D","r","i","f","t",","," ","D","a","t","a"," ">>,
     <<"c","o","n","t","e","n","t">>}

\* the "content" of a search result
\* "model drift model drift data"
ContentModel == <<"m","o","d","e","l"," ","d","r","i","f","t"," ","m","o","d","e","l"," ","d","r","i","f","t"," ","d","a","t","a">>

\* "Data drift data"
ContentData == <<"D","a","t","a"," ","d","r","i","f","t"," ","d","a","t","a">>

\* six words of five letters twice each, then seven more words of four letters or more
ContentRich ==
    <<"a","l","p","h","a"," ","a","l","p","h","a"," ","b","r","a","v","o"," ","b","r","a","v","o"," ","d","e","l","t","a"," ","d","e","l","t","a"," ","g","a","m","m","a"," ","g","a","m","m","a"," ","k","a","p","p","a"," ","k","a","p","p","a"," ","s","i","g","m","a"," ","s","i","g","m","a"," ","o","m","e","g","a"," ","t","h","e","t","a"," ","z","e","t","a"," ","i","o","t","a"," ","b","e","t","a"," ","d","a","t","a"," ","n","o","d","e">>

\* "https://a.io/p"
UrlGood == <<"h","t","t","p","s",":","/","/","a",".","i","o","/","p">>

\* "a.io": no scheme, so url.split("/") has one field only
UrlBare == <<"a",".","i","o">>

\* "Drift"
TitleDrift == <<"D","r","i","f","t">>

\* "drift note"
SnippetNote == <<"d","r","i","f","t"," ","n","o","t","e">>

\* search_agent.py:21 and :46  [:200]
SnippetLimit == 200

\* a text one character longer than a snippet may be
\* (words of nine letters with a space after each)
LongText == [i \in 1..(SnippetLimit + 1) |-> IF i % 10 = 0 THEN " " ELSE "a"]

\* a search result is a dict with any of the keys title, url, content, snippet
\* (dict |-> the key/value pairs), or some other object (isdict |-> FALSE)
Result(d) == [isdict |-> TRUE, dict |-> d]

NotADict == [isdict |-> FALSE, dict |-> <<>>]

Catalogue ==
    <<Result([title |-> TitleDrift, url |-> UrlGood, content |-> ContentModel]),
      Result([url |-> UrlGood, content |-> <<>>, snippet |-> SnippetNote]),
      Result([title |-> TitleDrift, content |-> ContentData]),
      Result([url |-> UrlGood, snippet |-> SnippetNote]),
      Result([title |-> TitleDrift, url |-> UrlGood, content |-> ContentRich]),
      Result([content |-> ContentModel])>>

\* the result lists a search may answer: up to max_results results, a list whose
\* only result has no content, a list holding a non-dict, a list with a bare url,
\* a list whose result has a content and a snippet longer than SnippetLimit
ResultLists ==
    {SubSeq(Catalogue, 1, n) : n \in 0..max_results}
    \cup {SubSeq(Catalogue, 2, 2), SubSeq(Catalogue, 3, 6), <<NotADict>>,
          <<Catalogue[1], Result([url |-> UrlBare, content |-> ContentData])>>,
          <<Result([url |-> UrlGood, content |-> LongText, snippet |-> LongText])>>}

\* a collaborator call raises or returns
Raise == [raised |-> TRUE, value |-> <<>>]

Return(v) == [raised |-> FALSE, value |-> v]

SearchOutcomes == {Raise} \cup {Return(l) : l \in ResultLists}

\* what llm.invoke(prompt).content may be: a str, or a list of content parts
\* "  # Introduction\nThis is text.\n# Conclusion\n- point one\n- point two\n"
NarrativeSections ==
    <<" "," ","#"," ","I","n","t","r","o","d","u","c","t","i","o","n","\n","T","h","i","s"," ","i","s"," ","t","e","x","t",".","\n","#"," ","C","o","n","c","l","u","s","i","o","n","\n","-"," ","p","o","i","n","t"," ","o","n","e","\n","-"," ","p","o","i","n","t"," ","t","w","o","\n">>

\* "plain text"
NarrativePlain == <<"p","l","a","i","n"," ","t","e","x","t">>

\* "first line\n\n  second line \nthird": three lines and no header
NarrativeLines == <<"f","i","r","s","t"," ","l","i","n","e","\n","\n"," "," ","s","e","c","o","n","d"," ","l","i","n","e"," ","\n","t","h","i","r","d">>

\* "Preface text.\n## Introduction\nBody.": text before the first header
NarrativePreface == <<"P","r","e","f","a","c","e"," ","t","e","x","t",".","\n","#","#"," ","I","n","t","r","o","d","u","c","t","i","o","n","\n","B","o","d","y",".">>

\* "Research Summary\nOverview text.\n1. Introduction\n* item one\n2. next item\nResearch Summary"
NarrativeResearch == <<"R","e","s","e","a","r","c","h"," ","S","u","m","m","a","r","y","\n","O","v","e","r","v","i","e","w"," ","t","e","x","t",".","\n","1","."," ","I","n","t","r","o","d","u","c","t","i","o","n","\n","*"," ","i","t","e","m"," ","o","n","e","\n","2","."," ","n","e","x","t"," ","i","t","e","m","\n","R","e","s","e","a","r","c","h"," ","S","u","m","m","a","r","y">>

\* "Research Summary of Drift\nBody text."
NarrativeResearchOf == <<"R","e","s","e","a","r","c","h"," ","S","u","m","m","a","r","y"," ","o","f"," ","D","r","i","f","t","\n","B","o","d","y"," ","t","e","x","t",".">>

\* "Heading\n" and a line of 103 characters that ends in " summary"
NarrativeLongLine ==
    <<"H","e","a","d","i","n","g","\n">> \o [i \in 1..95 |-> "x"] \o <<" ","s","u","m","m","a","r","y">>

\* "Key Insights\n**Bold** point\n- *item* two"
NarrativeMarkup == <<"K","e","y"," ","I","n","s","i","g","h","t","s","\n","*","*","B","o","l","d","*","*"," ","p","o","i","n","t","\n","-"," ","*","i","t","e","m","*"," ","t","w","o">>

Narratives ==
    {<<>>, NarrativeSections, NarrativePlain, NarrativeLines, NarrativePreface,
     NarrativeResearch, NarrativeResearchOf, NarrativeLongLine, NarrativeMarkup}

LlmOutcomes ==
    {Raise} \cup {Return([isstr |-> TRUE, content |-> n]) : n \in Narratives}
    \cup {Return([isstr |-> FALSE, content |-> <<NarrativePlain>>])}

\* SimpleDocTemplate(...).build(story) writes the file or raises
RenderOutcomes == {"built", "raise"}

\* datetime.now().strftime("%Y%m%d_%H%M%S") at the time of the run
timestamp == <<"2","0","2","6","1","1","0","4","_","1","2","0","0","0","0">>

(***************************************************************************)
(* agents/search_agent.py                                                  *)
(***************************************************************************)
\* result.get("url", "").split("/")[2] if result.get("url") else "unknown"
source_domain(result) ==
    LET url == Get(result, "url", <<>>)
        parts == SplitOn(url, "/")
    IN  IF url = <<>> THEN Return(<<"u","n","k","n","o","w","n">>)
        ELSE IF Len(parts) < 3 THEN Raise
        ELSE Return(parts[3])

\* lines 17-24: the document the primary tier builds from one result
PrimaryDoc(result, query, id) ==
    [id |-> id,
     title |-> Get(result, "title", query),
     url |-> Get(result, "url", <<>>),
     snippet |-> Prefix(Get(result, "content", <<>>), SnippetLimit),
     raw_content |-> Get(result, "content", <<>>),
     source_domain |-> source_domain(result).value]

\* lines 42-49: the document the secondary tier builds from one result
SecondaryDoc(result, query, id) ==
    [id |-> id,
     title |-> Get(result, "title", query),
     url |-> Get(result, "url", <<>>),
     snippet |-> Get(result, "snippet", Prefix(Get(result, "content", <<>>), SnippetLimit)),
     raw_content |-> Get(result, "content", Get(result, "snippet", <<>>)),
     source_domain |-> source_domain(result).value]

\* lines 9-31: the body of the first try; a result that is no dict has no .get
PrimaryTier(query, outcome, ids) ==
    IF outcome.raised THEN Raise
    ELSE LET results == outcome.value
         IN  IF \E i \in 1..Len(results) :
                    ~results[i].isdict \/ source_domain(results[i].dict).raised
             THEN Raise
             ELSE Return([i \in 1..Len(results) |-> PrimaryDoc(results[i].dict, query, ids[i])])

\* lines 34-56: the body of the second try; isinstance(result, dict) skips the others
SecondaryTier(query, outcome, ids) ==
    IF outcome.raised THEN Raise
    ELSE LET results == outcome.value
             dicts == SelectSeq([i \in 1..Len(results) |-> [r |-> results[i], id |-> ids[i]]],
                                LAMBDA x : x.r.isdict)
         IN  IF \E i \in 1..Len(dicts) : source_domain(dicts[i].r.dict).raised
             THEN Raise
             ELSE Return([i \in 1..Len(dicts) |-> SecondaryDoc(dicts[i].r.dict, query, dicts[i].id)])

\* a last tier that gives up with no document
SyntheticDocsNone(query) == <<>>

\* lines 60-67: the simulated document
SyntheticDocs(query) ==
    <<[id |-> "sim_1",
       title |-> <<"R","e","s","e","a","r","c","h"," ","o","n"," ">> \o query,
       url |-> <<"h","t","t","p","s",":","/","/","e","x","a","m","p","l","e",".","c","o","m","/","s","i","m","u","l","a","t","e","d">>,
       snippet |-> <<"S","i","m","u","l","a","t","e","d"," ","c","o","n","t","e","n","t"," ","f","o","r"," ">> \o query
                   \o <<"."," ","P","l","e","a","s","e"," ","c","h","e","c","k"," ","y","o","u","r"," ","T","a","v","i","l","y"," ","A","P","I"," ","k","e","y",".">>,
       raw_content |-> <<"T","h","i","s"," ","i","s"," ","s","i","m","u","l","a","t","e","d"," ","c","o","n","t","e","n","t"," ","f","o","r"," ","t","h","e"," ","t","o","p","i","c",":"," ">> \o query
                   \o <<"."," ","I","n"," ","a"," ","r","e","a","l"," ","d","e","p","l","o","y","m","e","n","t",","," ","t","h","i","s"," ","w","o","u","l","d"," ","c","o","n","t","a","i","n"," ","a","c","t","u","a","l"," ","r","e","s","e","a","r","c","h"," ","c","o","n","t","e","n","t"," ","f","r","o","m"," ","w","e","b"," ","s","o","u","r","c","e","s",".">>,
       source_domain |-> <<"s","i","m","u","l","a","t","e","d",".","c","o","m">>]>>

(***************************************************************************)
(* agents/analysis_agent.py                                                *)
(***************************************************************************)
StopWords ==
    {<<"t","h","e">>, <<"a","n","d">>, <<"f","o","r">>, <<"w","i","t","h">>, <<"t","h","a","t">>, <<"t","h","i","s">>, <<"f","r","o","m">>, <<"h","a","v","e">>,
     <<"h","a","s">>, <<"b","e","e","n">>, <<"a","r","e">>, <<"w","e","r","e">>, <<"t","h","e","i","r">>}

\* line 19: [w for w in words if w not in stop_words]
FilteredWords[words \in StrList, stop_words \in SUBSET Str] ==
    SelectSeq(words, LAMBDA w : w \notin stop_words)

\* line 25: [word.title() for word, count in common_words if count > 1]
ThemesOf[common_words \in Seq(Counted)] ==
    LET kept == SelectSeq(common_words, LAMBDA c : c.count > 1)
    IN  [i \in 1..Len(kept) |-> Title[kept[i].word]]

extract_meaningful_themes(texts, topic) ==
    LET full_text == Lower[Join[<<" ">>, texts]]
        topic_words == Range(Split(Lower[topic]))
        stop_words == StopWords \cup topic_words
        words == FindAll(5, full_text)
        filtered_words == FilteredWords[words, stop_words]
        common_words == MostCommon[filtered_words, 8]
        themes == ThemesOf[common_words]
    IN  Prefix(themes, 5)

\* the texts with the snippet standing in for an empty raw_content
AllTextsOrSnippet(docs) ==
    LET text(d) == IF Get(d, "raw_content", <<>>) # <<>> THEN d.raw_content
                   ELSE Get(d, "snippet", <<>>)
        with_text == SelectSeq(docs, LAMBDA d : text(d) # <<>>)
    IN  [i \in 1..Len(with_text) |-> text(with_text[i])]

\* line 36: the non-empty raw_content of the documents, in order
AllTexts(docs) ==
    LET with_text == SelectSeq(docs, LAMBDA d : Get(d, "raw_content", <<>>) # <<>>)
    IN  [i \in 1..Len(with_text) |-> with_text[i].raw_content]

\* line 52: [word for word, count in common_words]
WordsOf[common_words \in Seq(Counted)] ==
    [i \in 1..Len(common_words) |-> common_words[i].word]

analyze_agent(st) ==
    LET docs == Get(st, "raw_documents", <<>>)
        topic == Get(st, "topic_query", <<>>)
        all_texts == AllTexts(docs)
        themes == extract_meaningful_themes(all_texts, topic)
        words == FindAll(4, Lower[Join[<<" ">>, all_texts]])
        common_words == MostCommon[words, 12]
        keywords == WordsOf[common_words]
    IN  IF all_texts = <<>>
        THEN Return([analysis_result |->
                        [keywords |-> <<>>,
                         themes |-> <<>>,
                         summary |-> "No content to analyze",
                         num_sources |-> 0]])
        ELSE Return([analysis_result |->
                        [keywords |-> Prefix(keywords, 10),
                         themes |-> themes,
                         num_sources |-> Len(docs),
                         content_quality |-> IF Len(all_texts) > 3 THEN "good" ELSE "limited"]])

(***************************************************************************)
(* agents/validator_agent.py                                               *)
(***************************************************************************)
ExpandSearch == "Consider expanding search with more specific terms"

DeeperProcessing == "Analysis may need deeper processing"

SourceDiversity == "Excellent source diversity"

\* the rules as an if/elif chain: the first rule that holds is the only one to append
RecommendationsFirstRuleOnly(docs, analysis) ==
    IF Len(docs) < 2 THEN <<ExpandSearch>>
    ELSE IF Get(analysis, "themes", <<>>) = <<>> THEN <<DeeperProcessing>>
    ELSE IF Len(docs) >= 5 THEN <<SourceDiversity>>
    ELSE <<>>

\* lines 20-28: the three rules, each appending when its condition holds
Recommendations(docs, analysis) ==
    (IF Len(docs) < 2 THEN <<ExpandSearch>> ELSE <<>>)
    \o (IF Get(analysis, "themes", <<>>) = <<>> THEN <<DeeperProcessing>> ELSE <<>>)
    \o (IF Len(docs) >= 5 THEN <<SourceDiversity>> ELSE <<>>)

\* has_sufficient_sources with the threshold at five documents
SufficientAtFive(docs) == Len(docs) >= 5

\* line 12: len(docs) >= 3
has_sufficient_sources(docs) == Len(docs) >= 3

\* document_quality with the threshold one document higher
DocumentQualityAboveThree(docs) == IF Len(docs) > 3 THEN "good" ELSE "poor"

\* line 14: "good" if len(docs) > 2 else "poor"
document_quality(docs) == IF Len(docs) > 2 THEN "good" ELSE "poor"

validator_agent(st) ==
    LET analysis == Get(st, "analysis_result", <<>>)
        docs == Get(st, "raw_documents", <<>>)
    IN  Return([validation_result |->
                   [has_sufficient_sources |-> has_sufficient_sources(docs),
                    has_key_themes |-> Len(Get(analysis, "themes", <<>>)) > 0,
                    document_quality |-> document_quality(docs),
                    source_count |-> Len(docs),
                    theme_count |-> Len(Get(analysis, "themes", <<>>)),
                    recommendations |-> Recommendations(docs, analysis)]])

(***************************************************************************)
(* agents/summarizer_agent.py                                              *)
(***************************************************************************)
\* lines 81-89: the body of the try; a content that is no str has no .strip
LlmSummary(outcome) ==
    IF outcome.raised THEN Raise
    ELSE IF ~outcome.value.isstr THEN Raise
    ELSE Return(Strip[outcome.value.content])

\* an except branch whose text does not name the topic
ErrorSummaryWithoutTopic(topic) ==
    <<"E","r","r","o","r"," ","g","e","n","e","r","a","t","i","n","g"," ","s","t","r","u","c","t","u","r","e","d"," ","s","u","m","m","a","r","y",".">>

\* lines 95-97: the text the except branch substitutes
ErrorSummary(topic) ==
    <<"T","o","p","i","c",":"," ">> \o topic
    \o <<"\n","E","r","r","o","r"," ","g","e","n","e","r","a","t","i","n","g"," ","s","t","r","u","c","t","u","r","e","d"," ","s","u","m","m","a","r","y","."," ","P","l","e","a","s","e"," ","c","h","e","c","k"," ","y","o","u","r"," ","A","P","I"," ","c","o","n","f","i","g","u","r","a","t","i","o","n"," ","o","r"," ","i","n","p","u","t",".">>

\* summarizer_agent without its try/except: what llm.invoke raises leaves the node
SummarizerWithoutExcept(st, outcome) ==
    LET response == LlmSummary(outcome)
    IN  IF response.raised THEN Raise
        ELSE Return([final_summary |-> response.value])

summarizer_agent(st, outcome) ==
    LET topic == Get(st, "topic_query", <<>>)
        response == LlmSummary(outcome)
    IN  Return([final_summary |-> IF response.raised THEN ErrorSummary(topic)
                                  ELSE response.value])

(***************************************************************************)
(* utils/pdf_utils.py: the structurer (clean_summary_text) and the         *)
(* rendering of its sections into the story of the report.                 *)
(***************************************************************************)
\* the character U+2022 (a round bullet), one character of a str
BulletChar == "<U+2022>"

\* a section of the structurer: the one open before the first header has no number
Section ==
    [title : Str, content : StrList, original_title : Str]
    \cup [title : Str, content : StrList, original_title : Str, number : Nat]

\* pdf_utils.py:111  len(line) < 100
HeaderLimit == 100

DigitChars == <<"0","1","2","3","4","5","6","7","8","9">>

\* str(n) of a non-negative int
IntStr[n \in Nat] ==
    IF n < 10 THEN <<DigitChars[n+1]>>
    ELSE IntStr[n \div 10] \o <<DigitChars[(n % 10) + 1]>>

\* first index from i on that holds no whitespace (Len(s)+1 when there is none)
SkipSpace[s \in Str, i \in Nat] ==
    IF \A j \in i..Len(s) : IsSpace(s[j]) THEN Len(s) + 1
    ELSE CHOOSE j \in i..Len(s) : ~IsSpace(s[j]) /\ \A k \in i..(j-1) : IsSpace(s[k])

\* first index from i on that holds no digit
SkipDigits[s \in Str, i \in Nat] ==
    IF \A j \in i..Len(s) : s[j] \in Digits THEN Len(s) + 1
    ELSE CHOOSE j \in i..Len(s) : s[j] \notin Digits /\ \A k \in i..(j-1) : s[k] \in Digits

\* first index from i on that holds no lower-case letter
SkipLower[s \in Str, i \in Nat] ==
    IF \A j \in i..Len(s) : s[j] \in LowerLetters THEN Len(s) + 1
    ELSE CHOOSE j \in i..Len(s) :
            s[j] \notin LowerLetters /\ \A k \in i..(j-1) : s[k] \in LowerLetters

\* re.sub(r'#+\s*', '', s): every run of "#" goes, with the whitespace (line
\* ends included) that follows it
RemoveHeaderMarks[s \in Str] ==
    SelectSeq([i \in 1..Len(s) |->
                  IF \/ s[i] = "#"
                     \/ /\ IsSpace(s[i])
                        /\ \E j \in 1..(i-1) :
                              s[j] = "#" /\ \A k \in (j+1)..i : IsSpace(s[k])
                  THEN "" ELSE s[i]],
              LAMBDA c : c # "")

\* least j >= i with "**" at j on the same line, 0 when there is none
NextBold[s \in Str, i \in Nat] ==
    IF \E j \in i..(Len(s) - 1) :
          s[j] = "*" /\ s[j+1] = "*" /\ \A k \in i..(j-1) : s[k] # "\n"
    THEN CHOOSE j \in i..(Len(s) - 1) :
            /\ s[j] = "*" /\ s[j+1] = "*"
            /\ \A k \in i..(j-1) : ~(s[k] = "*" /\ s[k+1] = "*")
    ELSE 0

\* least j >= i with "**" at j, on any line; 0 when there is none
NextBoldOpen[s \in Str, i \in Nat] ==
    IF \E j \in i..(Len(s) - 1) : s[j] = "*" /\ s[j+1] = "*"
    THEN CHOOSE j \in i..(Len(s) - 1) :
            /\ s[j] = "*" /\ s[j+1] = "*"
            /\ \A k \in i..(j-1) : ~(s[k] = "*" /\ s[k+1] = "*")
    ELSE 0

\* re.sub(r'\*\*(.*?)\*\*', r'\1', s), from i on: the text up to the next "**" is
\* kept; a "**" that is closed on its line goes with its closing "**"
RemoveBoldFrom[s \in Str, i \in Nat, acc \in Str] ==
    IF NextBoldOpen[s, i] = 0 THEN acc \o SubSeq(s, i, Len(s))
    ELSE IF NextBold[s, NextBoldOpen[s, i] + 2] # 0
    THEN RemoveBoldFrom[s, NextBold[s, NextBoldOpen[s, i] + 2] + 2,
                        acc \o SubSeq(s, i, NextBoldOpen[s, i] - 1)
                            \o SubSeq(s, NextBoldOpen[s, i] + 2,
                                      NextBold[s, NextBoldOpen[s, i] + 2] - 1)]
    ELSE RemoveBoldFrom[s, NextBoldOpen[s, i] + 1, acc \o SubSeq(s, i, NextBoldOpen[s, i])]

\* least j >= i with "*" at j on the same line, 0 when there is none
NextStar[s \in Str, i \in Nat] ==
    IF \E j \in i..Len(s) : s[j] = "*" /\ \A k \in i..(j-1) : s[k] # "\n"
    THEN CHOOSE j \in i..Len(s) : s[j] = "*" /\ \A k \in i..(j-1) : s[k] # "*"
    ELSE 0

\* least j >= i with "*" at j, on any line; 0 when there is none
NextStarOpen[s \in Str, i \in Nat] ==
    IF \E j \in i..Len(s) : s[j] = "*"
    THEN CHOOSE j \in i..Len(s) : s[j] = "*" /\ \A k \in i..(j-1) : s[k] # "*"
    ELSE 0

\* re.sub(r'\*(.*?)\*', r'\1', s), from i on
RemoveItalicFrom[s \in Str, i \in Nat, acc \in Str] ==
    IF NextStarOpen[s, i] = 0 THEN acc \o SubSeq(s, i, Len(s))
    ELSE IF NextStar[s, NextStarOpen[s, i] + 1] # 0
    THEN RemoveItalicFrom[s, NextStar[s, NextStarOpen[s, i] + 1] + 1,
                          acc \o SubSeq(s, i, NextStarOpen[s, i] - 1)
                              \o SubSeq(s, NextStarOpen[s, i] + 1,
                                        NextStar[s, NextStarOpen[s, i] + 1] - 1)]
    ELSE RemoveItalicFrom[s, NextStarOpen[s, i] + 1, acc \o SubSeq(s, i, NextStarOpen[s, i])]

\* lines 183-185 and 149-151: bold, italic and header marks removed, in that order
CleanLine[line \in Str] ==
    RemoveHeaderMarks[RemoveItalicFrom[RemoveBoldFrom[line, 1, <<>>], 1, <<>>]]

\* re.match(r'^\d+\.', s)
StartsWithNumber(s) == SkipDigits[s, 1] > 1 /\ SkipDigits[s, 1] <= Len(s) /\ s[SkipDigits[s, 1]] = "."

\* lines 187-189: startswith(('•', '*', '-')), or a number and a dot, or "*" and a space
IsBulletLine(s) ==
    \/ s # <<>> /\ s[1] \in {BulletChar, "*", "-"}
    \/ StartsWithNumber(s)
    \/ Len(s) >= 2 /\ s[1] = "*" /\ IsSpace(s[2])

\* re.sub(r'^[•*\-]\s*', '', s)
RemoveBulletChar[s \in Str] ==
    IF s # <<>> /\ s[1] \in {BulletChar, "*", "-"}
    THEN SubSeq(s, SkipSpace[s, 2], Len(s)) ELSE s

\* re.sub(r'^\d+\.\s*', '', s)
RemoveLeadingNumber[s \in Str] ==
    IF StartsWithNumber(s)
    THEN SubSeq(s, SkipSpace[s, SkipDigits[s, 1] + 1], Len(s)) ELSE s

\* re.sub(r'^\*\s', '', s)
RemoveMarkdownBullet[s \in Str] ==
    IF Len(s) >= 2 /\ s[1] = "*" /\ IsSpace(s[2]) THEN SubSeq(s, 3, Len(s)) ELSE s

\* lines 192-194
FinalLine[clean_line \in Str] ==
    RemoveMarkdownBullet[RemoveLeadingNumber[RemoveBulletChar[clean_line]]]

\* re.sub(r'\s+', ' ', s): the first character of each run of whitespace stays,
\* as a space
CollapseSpaces[s \in Str] ==
    SelectSeq([i \in 1..Len(s) |->
                  IF ~IsSpace(s[i]) THEN s[i]
                  ELSE IF i = 1 \/ ~IsSpace(s[i-1]) THEN " " ELSE ""],
              LAMBDA c : c # "")

\* sub in s
Contains[s \in Str, sub \in Str] ==
    \E i \in 1..(Len(s) - Len(sub) + 1) : \A k \in 1..Len(sub) : s[i + k - 1] = sub[k]

\* each line of text.split('\n'), stripped
StripAll[lines \in StrList] ==
    IF lines = <<>> THEN <<>> ELSE <<Strip[Head(lines)]>> \o StripAll[Tail(lines)]

StrippedLines[text \in Str] == StripAll[SplitOn(text, "\n")]

\* the Paragraphs of reportlab, as far as the story is concerned
Paragraphs == [style : STRING, text : Str]

\* a Paragraph of the story: its text and the name of its style
Paragraph(text, style) == [style |-> style, text |-> text]

\* lines 187-197: what a cleaned line adds to the bullets: final_line.strip() when
\* the line starts as a bullet and something is left of it, else nothing ("")
BulletItem[clean_line \in Str] ==
    IF IsBulletLine(clean_line) THEN Strip[FinalLine[clean_line]] ELSE <<>>

BulletItems[lines \in StrList] ==
    [i \in 1..Len(lines) |-> BulletItem[CleanLine[lines[i]]]]

\* lines 175-199
extract_bullet_content[text \in Str] ==
    SelectSeq(BulletItems[StrippedLines[text]], LAMBDA bullet : bullet # <<>>)

\* lines 153-171: the Paragraph a cleaned line gives, if any
BulletLineParagraphs[item \in Str] ==
    IF item # <<>> THEN <<Paragraph(<<BulletChar, " ">> \o item, "bullet")>> ELSE <<>>

ProseLineParagraphs[stripped \in Str] ==
    IF stripped # <<>> THEN <<Paragraph(stripped, "normal")>> ELSE <<>>

LineParagraphs[clean_line \in Str] ==
    IF IsBulletLine(clean_line) THEN BulletLineParagraphs[BulletItem[clean_line]]
    ELSE ProseLineParagraphs[Strip[clean_line]]

ParagraphsOf[lines \in StrList] ==
    IF lines = <<>> THEN <<>>
    ELSE LineParagraphs[CleanLine[Head(lines)]] \o ParagraphsOf[Tail(lines)]

\* lines 135-173
format_bullet_points[text \in Str] == ParagraphsOf[StrippedLines[text]]

\* line 100: re.match(r'^\d+\.\s+[A-Z]', line)
NumberedHeader(line) ==
    /\ StartsWithNumber(line)
    /\ SkipSpace[line, SkipDigits[line, 1] + 1] > SkipDigits[line, 1] + 1
    /\ SkipSpace[line, SkipDigits[line, 1] + 1] <= Len(line)
    /\ line[SkipSpace[line, SkipDigits[line, 1] + 1]] \in UpperLetters

\* line 101: re.match(r'^[A-Z][a-z]+(?:\s+[A-Z][a-z]+)*\s*$', line), from the word at i
TitleCaseFrom[line \in Str, i \in Nat] ==
    /\ i <= Len(line)
    /\ line[i] \in UpperLetters
    /\ SkipLower[line, i+1] > i + 1
    /\ \/ SkipSpace[line, SkipLower[line, i+1]] > Len(line)
       \/ /\ SkipSpace[line, SkipLower[line, i+1]] > SkipLower[line, i+1]
          /\ TitleCaseFrom[line, SkipSpace[line, SkipLower[line, i+1]]]

\* lines 102-108
HeaderKeywords ==
    {<<"i","n","t","r","o","d","u","c","t","i","o","n">>,
     <<"m","e","t","h","o","d","o","l","o","g","y">>,
     <<"a","p","p","r","o","a","c","h">>,
     <<"k","e","y"," ","i","n","s","i","g","h","t","s">>,
     <<"c","h","a","l","l","e","n","g","e","s">>,
     <<"r","e","s","e","a","r","c","h"," ","g","a","p","s">>,
     <<"r","e","a","l","-","w","o","r","l","d"," ","a","p","p","l","i","c","a","t","i","o","n","s">>,
     <<"f","u","t","u","r","e"," ","s","c","o","p","e">>,
     <<"o","p","p","o","r","t","u","n","i","t","i","e","s">>,
     <<"c","o","n","c","l","u","s","i","o","n">>,
     <<"r","e","f","e","r","e","n","c","e","s">>,
     <<"s","u","m","m","a","r","y">>,
     <<"a","n","a","l","y","s","i","s">>,
     <<"r","e","s","u","l","t","s">>,
     <<"d","i","s","c","u","s","s","i","o","n">>,
     <<"a","p","p","l","i","c","a","t","i","o","n","s">>,
     <<"r","e","s","e","a","r","c","h"," ","s","u","m","m","a","r","y">>}

\* lines 99-109
is_header[line \in Str] ==
    \/ NumberedHeader(line)
    \/ TitleCaseFrom[line, 1]
    \/ \E keyword \in HeaderKeywords : Contains[Lower[line], keyword]

\* line 88: the section that is open before the first header
UntitledSection == [title |-> <<>>, content |-> <<>>, original_title |-> <<>>]

\* lines 118-123
NewSection(line, section_counter) ==
    [title |-> line, content |-> <<>>, original_title |-> line, number |-> section_counter]

\* a close that keeps a section only when it has content
ClosedWithContentOnly(secs, current_section) ==
    IF current_section.content # <<>> THEN Append(secs, current_section) ELSE secs

\* lines 113-114 and 130-131: a section with a title or some content is kept
Closed(secs, current_section) ==
    IF current_section.title # <<>> \/ current_section.content # <<>>
    THEN Append(secs, current_section) ELSE secs

\* lines 93-127: the loop over the lines, from line i on
StructureFrom[lines \in StrList, i \in Nat, secs \in Seq(Section), current_section \in Section, section_counter \in Nat] ==
    IF i > Len(lines) THEN Closed(secs, current_section)
    ELSE IF lines[i] = <<>>
    THEN StructureFrom[lines, i+1, secs, current_section, section_counter]
    ELSE IF is_header[lines[i]] /\ Len(lines[i]) < HeaderLimit
    THEN StructureFrom[lines, i+1, Closed(secs, current_section),
                       NewSection(lines[i], section_counter + 1), section_counter + 1]
    ELSE StructureFrom[lines, i+1, secs,
                       [current_section EXCEPT !.content = Append(@, lines[i])],
                       section_counter]

\* lines 82-133
clean_summary_text[summary \in Str] ==
    StructureFrom[StrippedLines[RemoveHeaderMarks[summary]], 1, <<>>, UntitledSection, 0]

\* lines 302-303
CleanTitle[title \in Str] ==
    Strip[CollapseSpaces[RemoveLeadingNumber[title]]]

\* line 306, for the stripped title of a section and its number
TitleSkipped[title \in Str, section_number \in Nat] ==
    /\ title # <<>>
    /\ Contains[Lower[CleanTitle[title]],
                <<"r","e","s","e","a","r","c","h"," ","s","u","m","m","a","r","y">>]
    /\ section_number = 1

\* line 306: the section is skipped, title and content
SectionSkipped(section) ==
    TitleSkipped[Strip[section.title], Get(section, "number", 0)]

\* lines 309-315, for the cleaned title of a section and its number
NumberedTitle[clean_title \in Str, section_number \in Nat] ==
    IF section_number > 0 THEN IntStr[section_number] \o <<".", " ">> \o clean_title
    ELSE clean_title

\* lines 299-316: the heading of a section, when it has a title
SectionHeading(section) ==
    IF Strip[section.title] = <<>> THEN <<>>
    ELSE <<Paragraph(NumberedTitle[CleanTitle[Strip[section.title]], Get(section, "number", 0)],
                     "heading2")>>

\* lines 328-330
BulletParagraphs[bullets \in StrList] ==
    IF bullets = <<>> THEN <<>>
    ELSE <<Paragraph(<<BulletChar, " ">> \o Head(bullets), "bullet")>>
         \o BulletParagraphs[Tail(bullets)]

\* lines 326-336: the bullets when there are some, or else the paragraphs
BulletsOrParagraphs[bullets \in StrList, combined_content \in Str] ==
    IF bullets # <<>> THEN BulletParagraphs[bullets]
    ELSE format_bullet_points[combined_content]

\* lines 324-336
ContentParagraphs[combined_content \in Str] ==
    BulletsOrParagraphs[extract_bullet_content[combined_content], combined_content]

\* lines 319-336
SectionBody(section) ==
    IF section.content = <<>> THEN <<>>
    ELSE ContentParagraphs[Join[<<" ">>, section.content]]

\* lines 294-338: the Paragraphs one section adds to the story
SectionStory(section) ==
    IF SectionSkipped(section) THEN <<>>
    ELSE SectionHeading(section) \o SectionBody(section)

\* lines 292-338: the Paragraphs of the executive summary, each with the
\* position of its section in the list clean_summary_text returned
TagSection[paragraphs \in Seq(Paragraphs), k \in Nat] ==
    [i \in 1..Len(paragraphs) |->
        [section |-> k, style |-> paragraphs[i].style, text |-> paragraphs[i].text]]

SummaryStoryFrom[secs \in Seq(Section), k \in Nat] ==
    IF k > Len(secs) THEN <<>>
    ELSE TagSection[SectionStory(secs[k]), k] \o SummaryStoryFrom[secs, k+1]

SummaryStory(secs) == SummaryStoryFrom[secs, 1]

(***************************************************************************)
(* utils/pdf_utils.py and agents/formatter_agent.py                        *)
(***************************************************************************)
\* "".join(c for c in topic if c.isalnum() or c in (' ', '-', '_')).rstrip()
safe_topic(topic) ==
    RStrip[SelectSeq(topic, LAMBDA c : IsAlpha(c) \/ c \in Digits \/ c \in {" ", "-", "_"})]

\* pdf_utils.py:213  f"outputs/Research_Report_{safe_topic}_{timestamp}.pdf"
Filename(safe) ==
    <<"o","u","t","p","u","t","s","/","R","e","s","e","a","r","c","h","_","R","e","p","o","r","t","_">>
    \o safe \o <<"_">> \o timestamp \o <<".","p","d","f">>

\* lines 381-423: the last resort; it returns "" when the build raises
generate_simple_pdf(topic, render) ==
    IF render = "raise" THEN Return(<<>>)
    ELSE Return(Filename(safe_topic(topic)))

\* lines 201-379: the report, or the last resort when anything in the try raises
generate_pdf(topic, render, simple_render) ==
    IF render = "raise" THEN generate_simple_pdf(topic, simple_render)
    ELSE Return(Filename(Prefix(safe_topic(topic), 50)))

\* "Research Report: "
ReportTitle(topic) == <<"R","e","s","e","a","r","c","h"," ","R","e","p","o","r","t",":"," ">> \o topic

\* formatter_agent.py:9-57, given what the call of generate_pdf at line 23 did
formatter_agent(st, pdf) ==
    LET topic == Get(st, "topic_query", <<>>)
        summary == Get(st, "final_summary", <<>>)
        analysis == Get(st, "analysis_result", <<>>)
        docs == Get(st, "raw_documents", <<>>)
        validation == Get(st, "validation_result", <<>>)
    IN  IF pdf.raised
        THEN Return([formatted_report |->
                        [title |-> ReportTitle(topic),
                         summary_length |-> Len(summary),
                         key_findings |-> Get(analysis, "themes", <<>>),
                         sources_used |-> Len(docs),
                         validation_status |-> "error",
                         error |-> "PDF generation failed"],
                     pdf_path |-> <<>>])
        ELSE Return([formatted_report |->
                        [title |-> ReportTitle(topic),
                         summary_length |-> Len(summary),
                         key_findings |-> Get(analysis, "themes", <<>>),
                         keywords |-> Prefix(Get(analysis, "keywords", <<>>), 10),
                         sources_used |-> Len(docs),
                         validation_status |-> Get(validation, "document_quality", "unknown"),
                         validation_score |-> IF Get(validation, "has_sufficient_sources", FALSE)
                                              THEN "High" ELSE "Medium"],
                     pdf_path |-> pdf.value])

(***************************************************************************)
(* main.py: the compiled StateGraph.  pc is the node about to run, or the  *)
(* place inside a node where a collaborator is about to be called.         *)
(***************************************************************************)
Fields ==
    {"topic_query", "raw_documents", "analysis_result", "validation_result",
     "final_summary", "formatted_report", "pdf_path"}

\* main.py:43  set_entry_point
EntryPoint == "search_agent"

\* the edges with analyze_agent wired to summarize_agent, past the validator
EdgesPastValidator ==
    [search_agent |-> "analyze_agent",
     analyze_agent |-> "summarize_agent",
     validator_agent |-> "summarize_agent",
     summarize_agent |-> "formatter_agent",
     formatter_agent |-> "END"]

\* main.py:44-48  add_edge
Edges ==
    [search_agent |-> "analyze_agent",
     analyze_agent |-> "validator_agent",
     validator_agent |-> "summarize_agent",
     summarize_agent |-> "formatter_agent",
     formatter_agent |-> "END"]

\* a merge that keeps the returned dict only
MergeKeepsUpdateOnly(st, update) == update

\* the graph writes a node's returned dict over the state, key by key
Merge(st, update) ==
    [k \in DOMAIN st \cup DOMAIN update |->
        IF k \in DOMAIN update THEN update[k] ELSE st[k]]

\* a node returned (its dict is merged and the edge followed) or raised
\* (invoke propagates the exception and the run is over)
Finish(node, result) ==
    IF result.raised
    THEN pc' = "failed" /\ UNCHANGED state
    ELSE pc' = Edges[node] /\ state' = Merge(state, result.value)

\* the topic as typed, not stripped
QueryUnstripped == Get(state, "topic_query", <<>>)

\* search_agent.py:71  the query the tiers are called with
Query == Strip[Get(state, "topic_query", <<>>)]

\* a tier that returns whatever list it built, empty or not
TierDoneWithoutDocsTest(r) == ~r.raised

\* search_agent.py:26 and :51  "if docs: return docs"
TierDone(r) == ~r.raised /\ r.value # <<>>

Attempt(tier, r) ==
    [tier |-> tier, raised |-> r.raised, docs |-> IF r.raised THEN <<>> ELSE r.value]

Init ==
    /\ pc = EntryPoint
    /\ state \in {[topic_query |-> t] : t \in Topics}
    /\ trace = <<>>
    /\ tiers = <<>>
    /\ renders = <<>>
    /\ llm = <<>>
    /\ sections = <<>>
    /\ story = <<>>

\* search_agent.py:69-75
SearchAgent ==
    /\ pc = "search_agent"
    /\ trace' = Append(trace, "search_agent")
    /\ IF Query = <<>>
       THEN \E result \in {Return([raw_documents |-> <<>>])} :
               Finish("search_agent", result)
       ELSE pc' = "tavily_primary" /\ UNCHANGED state
    /\ UNCHANGED <<tiers, renders, llm, sections, story>>

\* search_agent.py:9-31
TavilyPrimary ==
    /\ pc = "tavily_primary"
    /\ \E outcome \in SearchOutcomes, ids \in UuidDraws :
          \E r \in {PrimaryTier(Query, outcome, ids)} :
              /\ tiers' = Append(tiers, Attempt("primary", r))
              /\ IF TierDone(r)
                 THEN \E result \in {Return([raw_documents |-> r.value])} :
                         Finish("search_agent", result)
                 ELSE pc' = "tavily_secondary" /\ UNCHANGED state
    /\ UNCHANGED <<trace, renders, llm, sections, story>>

\* search_agent.py:33-56
TavilySecondary ==
    /\ pc = "tavily_secondary"
    /\ \E outcome \in SearchOutcomes, ids \in UuidDraws :
          \E r \in {SecondaryTier(Query, outcome, ids)} :
              /\ tiers' = Append(tiers, Attempt("secondary", r))
              /\ IF TierDone(r)
                 THEN \E result \in {Return([raw_documents |-> r.value])} :
                         Finish("search_agent", result)
                 ELSE pc' = "tavily_synthetic" /\ UNCHANGED state
    /\ UNCHANGED <<trace, renders, llm, sections, story>>

\* search_agent.py:58-67
TavilySynthetic ==
    /\ pc = "tavily_synthetic"
    /\ \E r \in {Return(SyntheticDocs(Query))} :
           /\ tiers' = Append(tiers, Attempt("synthetic", r))
           /\ \E result \in {Return([raw_documents |-> r.value])} :
                 Finish("search_agent", result)
    /\ UNCHANGED <<trace, renders, llm, sections, story>>

AnalyzeAgent ==
    /\ pc = "analyze_agent"
    /\ trace' = Append(trace, "analyze_agent")
    /\ \E result \in {analyze_agent(state)} : Finish("analyze_agent", result)
    /\ UNCHANGED <<tiers, renders, llm, sections, story>>

ValidatorAgent ==
    /\ pc = "validator_agent"
    /\ trace' = Append(trace, "validator_agent")
    /\ \E result \in {validator_agent(state)} : Finish("validator_agent", result)
    /\ UNCHANGED <<tiers, renders, llm, sections, story>>

SummarizeAgent ==
    /\ pc = "summarize_agent"
    /\ trace' = Append(trace, "summarize_agent")
    /\ \E outcome \in LlmOutcomes :
          /\ llm' = Append(llm, IF outcome.raised THEN "raise" ELSE "return")
          /\ \E result \in {summarizer_agent(state, outcome)} :
                Finish("summarize_agent", result)
    /\ UNCHANGED <<tiers, renders, sections, story>>

\* formatter_agent.py:9-23 and pdf_utils.py:205-371: up to the build of the report
FormatterAgent ==
    /\ pc = "formatter_agent"
    /\ trace' = Append(trace, "formatter_agent")
    /\ \E secs \in {clean_summary_text[Get(state, "final_summary", <<>>)]} :
          \E paragraphs \in {SummaryStory(secs)} :
             sections' = secs /\ story' = paragraphs
    /\ \E render \in RenderOutcomes :
          /\ renders' = Append(renders, render)
          /\ IF render = "raise"
             THEN pc' = "generate_simple_pdf" /\ UNCHANGED state
             ELSE \E pdf \in {generate_pdf(Get(state, "topic_query", <<>>), render, render)} :
                     \E result \in {formatter_agent(state, pdf)} :
                        Finish("formatter_agent", result)
    /\ UNCHANGED <<tiers, llm>>

\* pdf_utils.py:373-423 and formatter_agent.py:25-57: the last resort, then the return
GenerateSimplePdf ==
    /\ pc = "generate_simple_pdf"
    /\ \E render \in RenderOutcomes :
          /\ renders' = Append(renders, render)
          /\ \E pdf \in {generate_pdf(Get(state, "topic_query", <<>>), "raise", render)} :
                \E result \in {formatter_agent(state, pdf)} :
                   Finish("formatter_agent", result)
    /\ UNCHANGED <<trace, tiers, llm, sections, story>>

Next ==
    \/ SearchAgent
    \/ TavilyPrimary
    \/ TavilySecondary
    \/ TavilySynthetic
    \/ AnalyzeAgent
    \/ ValidatorAgent
    \/ SummarizeAgent
    \/ FormatterAgent
    \/ GenerateSimplePdf

Spec == Init /\ [][Next]_vars

\* one thread runs the graph and every collaborator call returns or raises,
\* so a run that can take a step takes it
FairSpec == Spec /\ WF_vars(Next)

(***************************************************************************)
(* Properties                                                              *)
(***************************************************************************)
StageOrder ==
    <<"search_agent", "analyze_agent", "validator_agent", "summarize_agent",
      "formatter_agent">>

\* the fields each node's returned dict carries
OwnFields ==
    [search_agent |-> {"raw_documents"},
     analyze_agent |-> {"analysis_result"},
     validator_agent |-> {"validation_result"},
     summarize_agent |-> {"final_summary"},
     formatter_agent |-> {"formatted_report", "pdf_path"}]

\* the node a value of pc lies in
NodeOf(p) ==
    IF p \in {"tavily_primary", "tavily_secondary", "tavily_synthetic"} THEN "search_agent"
    ELSE IF p = "generate_simple_pdf" THEN "formatter_agent"
    ELSE p

Terminal == pc = "END"

TierRaised(name) == \E i \in 1..Len(tiers) : tiers[i].tier = name /\ tiers[i].raised

AllRendersRaised == Len(renders) = 2 /\ \A i \in 1..Len(renders) : renders[i] = "raise"

\* C1: whatever the topic and whatever the search, LLM and render collaborators
\* answer (results, nothing, an exception), the run reaches END after
\* formatter_agent, and no node ends the run by raising.
C1_AlwaysReachesTerminal == <>Terminal /\ [](pc # "failed")

\* a run in which both search tiers, the LLM and both renders raised is at END
C1_Witness ==
    /\ Terminal
    /\ TierRaised("primary") /\ TierRaised("secondary")
    /\ state.final_summary = ErrorSummary(state.topic_query)
    /\ AllRendersRaised

\* C2: the nodes run in the order search, analyze, validate, summarize, format,
\* each once; the node about to run is the successor of the last one run, whose
\* returned fields are already in the state; at END all five have run.
C2_LinearOrder ==
    /\ \E n \in 0..Len(StageOrder) : trace = SubSeq(StageOrder, 1, n)
    /\ Terminal => trace = StageOrder
    /\ \A k \in 1..Len(StageOrder) :
          pc = StageOrder[k] =>
             /\ Len(trace) = k - 1
             /\ \A j \in 1..(k-1) : OwnFields[StageOrder[j]] \subseteq DOMAIN state
    /\ pc \notin {"END", "failed"} /\ pc \notin Range(StageOrder) =>
          trace # <<>> /\ trace[Len(trace)] = NodeOf(pc)

C2_Witness == Terminal /\ trace = StageOrder /\ DOMAIN state = Fields

TierOrder == <<"primary", "secondary", "synthetic">>

TierPc == <<"tavily_primary", "tavily_secondary", "tavily_synthetic">>

Produced(a) == ~a.raised /\ a.docs # <<>>

\* C3: the tiers are attempted in the order primary, secondary, synthetic, each at
\* most once; tier k+1 is attempted exactly when tier k raised or gave no
\* document; search_agent returns the documents of the first tier that gave some
\* (and no document, with no tier attempted, when the stripped topic is empty).
C3_TierChain ==
    /\ Len(tiers) <= Len(TierOrder)
    /\ \A k \in 1..Len(tiers) : tiers[k].tier = TierOrder[k]
    /\ \A k \in 1..Len(tiers) :
          IF Produced(tiers[k])
          THEN /\ k = Len(tiers)
               /\ pc \notin Range(TierPc)
               /\ "raw_documents" \in DOMAIN state
               /\ state.raw_documents = tiers[k].docs
          ELSE k < Len(TierOrder) /\ (Len(tiers) > k \/ pc = TierPc[k+1])
    /\ \A k \in 1..Len(TierPc) : pc = TierPc[k] => Len(tiers) = k - 1
    /\ "raw_documents" \in DOMAIN state =>
          IF tiers = <<>>
          THEN Query = <<>> /\ state.raw_documents = <<>>
          ELSE /\ Produced(tiers[Len(tiers)])
               /\ state.raw_documents = tiers[Len(tiers)].docs

\* the secondary tier was attempted after an empty primary answer and its
\* documents were returned
C3_Witness ==
    /\ Len(tiers) = 2
    /\ ~tiers[1].raised /\ tiers[1].docs = <<>>
    /\ Produced(tiers[2])
    /\ pc = "analyze_agent"
    /\ state.raw_documents = tiers[2].docs

\* C4: when the search raised in both tiers, the run reaches END, and at END
\* raw_documents holds exactly one document, the simulated one (id "sim_1").
C4_AllTiersRaised ==
    /\ [](TierRaised("primary") /\ TierRaised("secondary") => <>Terminal)
    /\ [](Terminal /\ TierRaised("primary") /\ TierRaised("secondary") =>
             /\ Len(state.raw_documents) = 1
             /\ state.raw_documents[1].id = "sim_1"
             /\ state.raw_documents = SyntheticDocs(Query))

C4_Witness ==
    /\ Terminal
    /\ TierRaised("primary") /\ TierRaised("secondary")
    /\ Len(state.raw_documents) = 1
    /\ state.raw_documents[1].id = "sim_1"

\* C5 (as claimed): when every render of the Format stage raised, the returned
\* formatted_report carries an error field, pdf_path is empty and the run did
\* not fail.
C5_RenderFailureMarked ==
    Terminal /\ AllRendersRaised =>
        /\ "error" \in DOMAIN state.formatted_report
        /\ state.pdf_path = <<>>

\* C6: a step never removes or changes a field the state already has, the
\* fields it adds are those of the node that ran (all of them when the node
\* returns), and so the Format stage leaves the five upstream fields as they
\* were, also when every render raised.
C6_StateOnlyGrows ==
    [][/\ \A f \in DOMAIN state : f \in DOMAIN state' /\ state'[f] = state[f]
       /\ (DOMAIN state' \ DOMAIN state) \subseteq OwnFields[NodeOf(pc)]
       /\ (pc' # "failed" /\ NodeOf(pc') # NodeOf(pc)) =>
             OwnFields[NodeOf(pc)] \subseteq DOMAIN state']_vars

C6_Witness ==
    /\ Terminal
    /\ AllRendersRaised
    /\ DOMAIN state = Fields
    /\ state.raw_documents # <<>>

\* C7: has_sufficient_sources is true exactly when there are 3 documents or
\* more, document_quality is "good" exactly when there are more than 2 and
\* "poor" otherwise, so the two always agree.
C7_ValidatorThresholds ==
    "validation_result" \in DOMAIN state =>
        LET n == Len(state.raw_documents)
            v == state.validation_result
        IN  /\ v.has_sufficient_sources = (n >= 3)
            /\ v.document_quality = (IF n > 2 THEN "good" ELSE "poor")
            /\ v.has_sufficient_sources = (v.document_quality = "good")

C7_Witness ==
    /\ "validation_result" \in DOMAIN state
    /\ Len(state.raw_documents) = 3
    /\ state.validation_result.has_sufficient_sources
    /\ state.validation_result.document_quality = "good"

Position(q, x) == CHOOSE i \in 1..Len(q) : q[i] = x

\* C8: the expand-search message is in the list iff there are fewer than 2
\* documents, the deeper-processing message iff there is no theme, the
\* source-diversity message iff there are 5 documents or more; nothing else is in
\* the list, and the messages stand in that order; 1 document and no theme give
\* exactly <<expand-search, deeper-processing>>.
C8_Recommendations ==
    "validation_result" \in DOMAIN state =>
        LET n == Len(state.raw_documents)
            t == Len(state.analysis_result.themes)
            recs == state.validation_result.recommendations
            msgs == <<ExpandSearch, DeeperProcessing, SourceDiversity>>
            due == <<n < 2, t = 0, n >= 5>>
        IN  /\ \A i \in 1..3 : (msgs[i] \in Range(recs)) = due[i]
            /\ Len(recs) = Cardinality({i \in 1..3 : due[i]})
            /\ \A i, j \in 1..3 :
                  i < j /\ due[i] /\ due[j] => Position(recs, msgs[i]) < Position(recs, msgs[j])
            /\ (n = 1 /\ t = 0) => recs = <<ExpandSearch, DeeperProcessing>>

C8_Witness ==
    /\ "validation_result" \in DOMAIN state
    /\ Len(state.raw_documents) = 1
    /\ state.analysis_result.themes = <<>>
    /\ state.validation_result.recommendations = <<ExpandSearch, DeeperProcessing>>

\* the words of the topic: its whitespace-separated tokens and the runs of
\* letters in it, lower-cased
TopicWordsOf(topic) ==
    Range(Split(Lower[topic])) \cup Range(FindAll(1, Lower[topic]))

\* C9 (as claimed): for a non-empty document list there are at most 10 keywords
\* and at most 5 themes, and no theme is, ignoring case, a word of the topic,
\* also when the topic word carries punctuation or a hyphen.
C9_ThemesExcludeTopic ==
    ("analysis_result" \in DOMAIN state /\ state.raw_documents # <<>>) =>
        LET a == state.analysis_result
        IN  /\ Len(a.keywords) <= 10
            /\ Len(a.themes) <= 5
            /\ \A i \in 1..Len(a.themes) :
                  Lower[a.themes[i]] \notin TopicWordsOf(state.topic_query)

NoText(docs) == \A i \in 1..Len(docs) : Get(docs[i], "raw_content", <<>>) = <<>>

\* C10: with no document, or with documents that all have an empty raw_content,
\* analyze_agent returns (the run does not fail) and its keywords and themes
\* are both empty.
C10_EmptyAnalysis ==
    /\ (pc = "failed") => trace[Len(trace)] # "analyze_agent"
    /\ ("analysis_result" \in DOMAIN state /\ NoText(state.raw_documents)) =>
          /\ state.analysis_result.keywords = <<>>
          /\ state.analysis_result.themes = <<>>

\* one document, found by the secondary tier, has a snippet and no content
C10_Witness ==
    /\ "analysis_result" \in DOMAIN state
    /\ Len(state.raw_documents) = 1
    /\ NoText(state.raw_documents)
    /\ state.raw_documents[1].snippet # <<>>
    /\ state.analysis_result.keywords = <<>>
    /\ state.analysis_result.themes = <<>>

\* formatter_agent has run: the structurer was applied to final_summary
FormatRan == Len(trace) = Len(StageOrder)

\* the Paragraphs section k put into the story below its heading
BodyOf(k) == SelectSeq(story, LAMBDA p : p.section = k /\ p.style # "heading2")

\* the line starts with a bullet marker: a round bullet, "*", "-", or a number and "."
StartsWithMarker(line) ==
    line # <<>> /\ (line[1] \in {BulletChar, "*", "-"} \/ StartsWithNumber(line))

\* C11 (as claimed): a rendered section with k > 0 content lines that start with
\* a bullet marker renders exactly k bullet items, and a section with no such
\* line renders one prose paragraph per content line.
C11_BulletPerLine ==
    \A k \in 1..Len(sections) :
        ~SectionSkipped(sections[k]) =>
            LET content == sections[k].content
                marked == SelectSeq(content, LAMBDA l : StartsWithMarker(l))
                body == BodyOf(k)
            IN  IF marked # <<>>
                THEN /\ Len(body) = Len(marked)
                     /\ \A i \in 1..Len(body) : body[i].style = "bullet"
                ELSE /\ Len(body) = Len(content)
                     /\ \A i \in 1..Len(body) : body[i].style = "normal"

\* the non-blank lines of the narrative, stripped, after the removal of "#" marks
NonBlankLines(summary) ==
    SelectSeq(StrippedLines[RemoveHeaderMarks[summary]], LAMBDA l : l # <<>>)

\* the line opens a section: it is recognised as a header and is short enough
OpensSection(line) == is_header[line] /\ Len(line) < HeaderLimit

\* C12 (as claimed): for a narrative with no header line, the empty narrative
\* included, the structurer returns exactly one section, with an empty title and
\* all the non-blank lines as its content.
C12_HeaderlessOneSection ==
    (FormatRan /\ \A i \in 1..Len(NonBlankLines(state.final_summary)) :
                     ~OpensSection(NonBlankLines(state.final_summary)[i])) =>
        /\ Len(sections) = 1
        /\ sections[1].title = <<>>
        /\ sections[1].content = NonBlankLines(state.final_summary)

\* "Topic: "
TopicLabel == <<"T","o","p","i","c",":"," ">>

\* C13: when the LLM call raised, summarize_agent returns (the run does not
\* fail there), final_summary is a placeholder that starts with "Topic: " and the
\* topic followed by an error text, and Format receives exactly that text: it is
\* what the structurer is applied to and what summary_length measures.
C13_LlmFailurePlaceholder ==
    (llm # <<>> /\ llm[1] = "raise") =>
        /\ pc \in {"formatter_agent", "generate_simple_pdf", "END"}
        /\ "final_summary" \in DOMAIN state
        /\ Len(state.final_summary) > Len(TopicLabel \o state.topic_query)
        /\ SubSeq(state.final_summary, 1, Len(TopicLabel \o state.topic_query))
              = TopicLabel \o state.topic_query
        /\ FormatRan => sections = clean_summary_text[state.final_summary]
        /\ "formatted_report" \in DOMAIN state =>
              state.formatted_report.summary_length = Len(state.final_summary)

\* a run whose LLM call raised is at END with the placeholder structured
C13_Witness ==
    /\ Terminal
    /\ llm = <<"raise">>
    /\ state.topic_query = <<"M","o","d","e","l"," ","D","r","i","f","t">>
    /\ state.final_summary = ErrorSummary(state.topic_query)
    /\ sections # <<>>
    /\ state.formatted_report.summary_length = Len(state.final_summary)

\* C14 (as claimed): every document of raw_documents, whatever tier built it,
\* has a snippet of at most 200 characters and an id no other document of the
\* run has.
C14_SnippetAndIds ==
    "raw_documents" \in DOMAIN state =>
        /\ \A i \in 1..Len(state.raw_documents) :
              Len(state.raw_documents[i].snippet) <= SnippetLimit
        /\ \A i, j \in 1..Len(state.raw_documents) :
              i # j => state.raw_documents[i].id # state.raw_documents[j].id

\* C15 (as claimed): every section the structurer returns carries a number, and
\* the numbers are 1..n in order.
C15_SectionNumbers ==
    \A k \in 1..Len(sections) :
        "number" \in DOMAIN sections[k] /\ sections[k].number = k

\* section k has its heading in the story
HeadingOf(k) == SelectSeq(story, LAMBDA p : p.section = k /\ p.style = "heading2")

\* "research summary"
ResearchSummary == <<"r","e","s","e","a","r","c","h"," ","s","u","m","m","a","r","y">>

\* C16 (as claimed): a section with a title is left out of the story exactly
\* when its number is 1 and its cleaned title is, ignoring case, "research
\* summary"; any other titled section has its heading in the story, and with a
\* number above 1 the heading reads "<number>. <cleaned title>".
C16_ResearchSummarySkip ==
    \A k \in 1..Len(sections) :
        Strip[sections[k].title] # <<>> =>
            LET clean_title == CleanTitle[Strip[sections[k].title]]
                number == Get(sections[k], "number", 0)
            IN  IF number = 1 /\ Lower[clean_title] = ResearchSummary
                THEN HeadingOf(k) = <<>> /\ BodyOf(k) = <<>>
                ELSE /\ Len(HeadingOf(k)) = 1
                     /\ number > 1 =>
                           HeadingOf(k)[1].text = IntStr[number] \o <<".", " ">> \o clean_title

\* the titles (when not empty) and the content lines of the sections, in order
LinesOf[secs \in Seq(Section)] ==
    IF secs = <<>> THEN <<>>
    ELSE (IF Head(secs).title # <<>> THEN <<Head(secs).title>> ELSE <<>>)
         \o Head(secs).content \o LinesOf[Tail(secs)]

\* C17: the structurer neither loses, duplicates nor reorders lines: the titles
\* and content lines of the sections, read in order, are the non-blank stripped
\* lines of the narrative without its "#" marks; a line is a title exactly when
\* it is recognised as a header and is shorter than 100 characters.
C17_LinesPreserved ==
    FormatRan =>
        /\ LinesOf[sections] = NonBlankLines(state.final_summary)
        /\ \A k \in 1..Len(sections) :
              /\ sections[k].title # <<>> => OpensSection(sections[k].title)
              /\ \A i \in 1..Len(sections[k].content) :
                    ~OpensSection(sections[k].content[i])
              /\ sections[k].title = <<>> => k = 1

\* a header-like line of 100 characters or more stayed a content line of the
\* section its short header opened
C17_Witness ==
    /\ FormatRan
    /\ \E k \in 1..Len(sections) : \E i \in 1..Len(sections[k].content) :
          is_header[sections[k].content[i]] /\ Len(sections[k].content[i]) >= HeaderLimit
    /\ LinesOf[sections] = NonBlankLines(state.final_summary)
    /\ Len(sections) = 1 /\ sections[1].title # <<>>

\* C18: for a topic that is empty or whitespace only, search_agent returns an
\* empty list without attempting any tier, the run does not fail, and the four
\* later stages still run, on no document.
C18_EmptyTopic ==
    Strip[state.topic_query] = <<>> =>
        /\ tiers = <<>>
        /\ pc \notin Range(TierPc) /\ pc # "failed"
        /\ "raw_documents" \in DOMAIN state => state.raw_documents = <<>>
        /\ "analysis_result" \in DOMAIN state => state.analysis_result.num_sources = 0
        /\ "validation_result" \in DOMAIN state => state.validation_result.source_count = 0
        /\ Terminal => trace = StageOrder /\ DOMAIN state = Fields

C18_Witness ==
    /\ Terminal
    /\ state.topic_query = <<" ", " ">>
    /\ tiers = <<>>
    /\ state.raw_documents = <<>>
    /\ trace = StageOrder

\* C19 (as claimed): at END the source counts of the analysis and of the
\* validation are both the number of documents in raw_documents.
C19_SourceCounts ==
    Terminal =>
        /\ state.analysis_result.num_sources = Len(state.raw_documents)
        /\ state.validation_result.source_count = Len(state.raw_documents)

\* C20: at END, a content_quality of "good" in the analysis implies a
\* document_quality of "good" and has_sufficient_sources in the validation; the
\* converse does not hold: with exactly 3 documents the validation is good and
\* the analysis is not.
C20_QualityImplication ==
    Terminal =>
        /\ Get(state.analysis_result, "content_quality", "") = "good" =>
              /\ state.validation_result.document_quality = "good"
              /\ state.validation_result.has_sufficient_sources
        /\ Len(state.raw_documents) = 3 =>
              /\ state.validation_result.document_quality = "good"
              /\ state.validation_result.has_sufficient_sources
              /\ Get(state.analysis_result, "content_quality", "") # "good"

\* four documents with text: the analysis and the validation are both good
C20_Witness ==
    /\ Terminal
    /\ Len(state.raw_documents) = 4
    /\ Get(state.analysis_result, "content_quality", "") = "good"
    /\ state.validation_result.document_quality = "good"
    /\ state.validation_result.has_sufficient_sources

\* three documents with text: the validation is good and the analysis limited
C20_ConverseFails ==
    /\ Terminal
    /\ Len(state.raw_documents) = 3
    /\ state.validation_result.document_quality = "good"
    /\ Get(state.analysis_result, "content_quality", "") = "limited"

====
